---- MODULE Spec2Model ----
(***************************************************************************)
(* A model of goqu's database layer (dsl.go): the DSL handle with its      *)
(* trace sink and lazily created query factory, the Database handle that   *)
(* begins transactions, and the TxDatabase handle with Commit, Rollback    *)
(* and the Wrap completion protocol.                                       *)
(*                                                                         *)
(* Handle 0 is the Database; handles 1..MaxTx are the TxDatabases, in the  *)
(* order Begin/BeginTx create them.  The collaborators the code only       *)
(* consumes (the sql connection, sql.Tx, the Logger, the executor built by *)
(* the query factory) answer nondeterministically.                         *)
(***************************************************************************)
EXTENDS Integers, Sequences, FiniteSets, TLC

\* ---------------------------------------------------------------- bounds
MaxTx == 2       \* the TxDatabase handles there can be
MaxBegun == 1    \* the transactions a behaviour of Spec begins
NumProcs == 2    \* the concurrent callers of SpecQF

\* ------------------------------------------------------------ value sets
Nil == "nil"
DB == 0
Txs == 1..MaxTx
Handles == 0..MaxTx
Procs == 1..NumProcs
Sinks == {"L1", "L2"}
Dialects == {"postgres", "mysql"}
Errs == {"e1", "e2"}
ErrTxDone == "sql: transaction has already been committed or rolled back"
PanicNilError == "runtime.PanicNilError"
Background == "background"
Ctxs == {Background, "ctx1"}
Queries == {"", "SELECT 1"}
ArgLists == {<<>>, <<"7">>, <<"7", "x">>}
NoConn == -1
NilQF == [dsl |-> -1, id |-> 0]

VARIABLES
    live,      \* the handles that exist
    logger,    \* DSL.logger, per handle: a sink or Nil
    dialect,   \* DSL.dialect, per handle
    sql,       \* DSL.sql, per handle: the connection the handle is bound to
    qf,        \* DSL.qf, per handle: the query factory or NilQF
    qfOnce,    \* DSL.qfOnce, per handle: [done, m] of the sync.Once
    nctor,     \* per handle: how often exec.NewQueryFactory ran for it
    Tx,        \* TxDatabase.Tx, per transaction: state of the underlying sql.Tx
    wrap,      \* the Wrap call in progress (its frame)
    pc,        \* per caller: position inside a factory-using operation
    cur,       \* per caller: the factory-using operation it is in or has finished
    obs        \* what the latest completed call did and returned (cleared when a
               \* Wrap or a factory-using call starts and when a Wrap's work ends)

vars == <<live, logger, dialect, sql, qf, qfOnce, nctor, Tx, wrap, pc, cur, obs>>

\* --------------------------------------------------------------- events
\* One observable effect on a collaborator: a Printf on a sink, or a call on
\* a connection / transaction.
PrintfEv(sink, msg) ==
    [k |-> "printf", sink |-> sink, conn |-> NoConn, m |-> "Printf", a |-> msg, r |-> <<>>]
\* a call of method m with arguments a on connection conn, which answered r
CallEv(conn, m, a, r) ==
    [k |-> "call", sink |-> Nil, conn |-> conn, m |-> m, a |-> a, r |-> r]
\* a call of DSL.Trace(op, sqlString, args...)
TraceEv(op, sqlString, args) ==
    [k |-> "trace", sink |-> Nil, conn |-> NoConn, m |-> op, a |-> <<sqlString>> \o args,
     r |-> <<>>]
\* control leaves a function: how ("return", "panic", "goexit") and with what
LeaveEv(how, val) ==
    [k |-> "leave", sink |-> Nil, conn |-> NoConn, m |-> how, a |-> <<val>>, r |-> <<>>]

\* ------------------------------------------------------------ formatting
\* %+v of a []interface{}: "[" elements separated by one space "]".
RECURSIVE JoinSp(_)
JoinSp(args) ==
    IF Len(args) = 0 THEN <<>>
    ELSE IF Len(args) = 1 THEN <<args[1]>>
    ELSE <<args[1], " ">> \o JoinSp(Tail(args))

FmtPlusV(args) == <<"[">> \o JoinSp(args) \o <<"]">>

\* fmt.Sprintf over a format given as its pieces: each verb consumes the next
\* operand (an operand is a sequence of text pieces), other pieces are literal.
RECURSIVE Sprintf(_, _)
Sprintf(format, operands) ==
    IF Len(format) = 0 THEN <<>>
    ELSE IF Head(format) \in {"%s", "%+v"}
         THEN (IF Len(operands) = 0 THEN <<"%!(MISSING)">> ELSE Head(operands))
              \o Sprintf(Tail(format), IF Len(operands) = 0 THEN <<>> ELSE Tail(operands))
         ELSE <<Head(format)>> \o Sprintf(Tail(format), operands)

\* BQ stands for the backquote character, which a TLA+ string cannot hold.
BQ == "<bq>"
FmtQueryArgs == <<"[goqu] ", "%s", " [query:=", BQ, "%s", BQ, " args:=", "%+v", "]">>
FmtQuery == <<"[goqu] ", "%s", " [query:=", BQ, "%s", BQ, "]">>
FmtOp == <<"[goqu] ", "%s">>

\* DSL.Trace: the call itself, then what it prints (at most one Printf, on
\* the handle's sink).
TraceIgnoresEmptySQL(d, op, sqlString, args) ==
    <<TraceEv(op, sqlString, args)>> \o
    IF logger[d] # Nil
    THEN IF Len(args) # 0
         THEN <<PrintfEv(logger[d],
                         Sprintf(FmtQueryArgs, <<<<op>>, <<sqlString>>, FmtPlusV(args)>>))>>
         ELSE <<PrintfEv(logger[d], Sprintf(FmtQuery, <<<<op>>, <<sqlString>>>>))>>
    ELSE <<>>

Trace(d, op, sqlString, args) ==
    <<TraceEv(op, sqlString, args)>> \o
    IF logger[d] # Nil
    THEN IF sqlString # ""
         THEN IF Len(args) # 0
              THEN <<PrintfEv(logger[d],
                              Sprintf(FmtQueryArgs, <<<<op>>, <<sqlString>>, FmtPlusV(args)>>))>>
              ELSE <<PrintfEv(logger[d], Sprintf(FmtQuery, <<<<op>>, <<sqlString>>>>))>>
         ELSE <<PrintfEv(logger[d], Sprintf(FmtOp, <<<<op>>>>))>>
    ELSE <<>>

\* ---------------------------------------------------------- observations
\* What a completed call did (ev, in order) and returned (ret); tx is the
\* TxDatabase a Begin returned (0: none), got the factory a caller received.
Obs(op, h, ctx, query, args, ev, ret, tx, got) ==
    [op |-> op, h |-> h, ctx |-> ctx, query |-> query, args |-> args,
     ev |-> ev, ret |-> ret, tx |-> tx, got |-> got]
NoObs == Obs("", -1, "", "", <<>>, <<>>, <<>>, 0, NilQF)

\* ------------------------------------------------------------ constructors
newDSL(dl, conn) ==
    [logger |-> Nil, dialect |-> dl, sql |-> conn, qf |-> NilQF,
     qfOnce |-> [done |-> FALSE, m |-> 0]]

newDatabase(dl, db) == newDSL(dl, db)

\* Variant: the transaction's DSL starts as a copy of the factory fields of
\* the Database's DSL.
NewTxCopiesFactory(dl, tx) ==
    [newDSL(dl, tx) EXCEPT !.qf = qf[DB], !.qfOnce = qfOnce[DB]]

NewTx(dl, tx) == newDSL(dl, tx)

IdleWrap == [pc |-> "idle", td |-> 0, via |-> "", kind |-> "", val |-> Nil, ev |-> <<>>]
IdleCur == [d |-> -1, got |-> NilQF]

\* The state after newDatabase(dl, db): the Database alone.
InitDB(dl) ==
    /\ live = {DB}
    /\ LET d0 == newDatabase(dl, DB) IN
         /\ dialect = [h \in Handles |-> IF h = DB THEN d0.dialect ELSE ""]
         /\ logger = [h \in Handles |-> d0.logger]
         /\ sql = [h \in Handles |-> IF h = DB THEN d0.sql ELSE NoConn]
         /\ qf = [h \in Handles |-> d0.qf]
         /\ qfOnce = [h \in Handles |-> d0.qfOnce]
    /\ nctor = [h \in Handles |-> 0]
    /\ Tx = [t \in Txs |-> "none"]
    /\ wrap = IdleWrap
    /\ pc = [p \in Procs |-> "idle"]
    /\ cur = [p \in Procs |-> IdleCur]
    /\ obs = NoObs

Init == \E dl \in Dialects : InitDB(dl)

\* No factory-using call is in flight, and no Wrap is past its work.  The work
\* of a Wrap is modelled by the lifecycle calls it makes (Logger, Begin,
\* BeginTx, Commit, Rollback) and by how it ends; the other calls are made
\* outside a Wrap.
CanCall == /\ \A p \in Procs : pc[p] = "idle"
           /\ wrap.pc \in {"idle", "inWork"}

\* --------------------------------------------------------------- DSL.Logger
\* Variant: one sink for all the handles there are.
LoggerShared(d, l) ==
    /\ CanCall
    /\ d \in live
    /\ logger' = [h \in Handles |-> IF h \in live THEN l ELSE logger[h]]
    /\ obs' = Obs("Logger", d, "", "", <<l>>, <<>>, <<>>, 0, NilQF)
    /\ UNCHANGED <<live, dialect, sql, qf, qfOnce, nctor, Tx, wrap, pc, cur>>

Logger(d, l) ==
    /\ CanCall
    /\ d \in live
    /\ logger' = [logger EXCEPT ![d] = l]
    /\ obs' = Obs("Logger", d, "", "", <<l>>, <<>>, <<>>, 0, NilQF)
    /\ UNCHANGED <<live, dialect, sql, qf, qfOnce, nctor, Tx, wrap, pc, cur>>

\* ------------------------------------------------- Exec / Prepare / Query
\* The answers a connection can give.
ExecAnswers == {<<"result", Nil>>} \cup {<<Nil, e>> : e \in Errs}
StmtAnswers == {<<"stmt", Nil>>} \cup {<<Nil, e>> : e \in Errs}
RowsAnswers == {<<"rows", Nil>>} \cup {<<Nil, e>> : e \in Errs}
RowAnswers == {<<"row">>, <<"row-with-error">>}

\* A call that only traces and forwards: its observation.
Simple(op, d, ctx, query, args, ev, ret) ==
    /\ CanCall
    /\ wrap.pc = "idle"
    /\ d \in live
    /\ obs' = Obs(op, d, ctx, query, args, ev, ret, 0, NilQF)
    /\ UNCHANGED <<live, logger, dialect, sql, qf, qfOnce, nctor, Tx, wrap, pc, cur>>

\* Variant: a failed call is made a second time.
ExecContextDoRetries(d, ctx, query, args, r) ==
    Trace(d, "EXEC", query, args)
        \o <<CallEv(sql[d], "ExecContext", <<ctx, query>> \o args, r)>>
        \o (IF r[2] # Nil THEN <<CallEv(sql[d], "ExecContext", <<ctx, query>> \o args, r)>>
                          ELSE <<>>)

ExecContextDo(d, ctx, query, args, r) ==
    Trace(d, "EXEC", query, args) \o <<CallEv(sql[d], "ExecContext", <<ctx, query>> \o args, r)>>

ExecContext(d, ctx, query, args, r) ==
    Simple("ExecContext", d, ctx, query, args, ExecContextDo(d, ctx, query, args, r), r)

\* Variant: the plain call goes to the connection without tracing.
ExecWithoutTrace(d, query, args, r) ==
    Simple("Exec", d, Background, query, args,
           <<CallEv(sql[d], "ExecContext", <<Background, query>> \o args, r)>>, r)

Exec(d, query, args, r) ==
    Simple("Exec", d, Background, query, args, ExecContextDo(d, Background, query, args, r), r)

PrepareContextDo(d, ctx, query, r) ==
    Trace(d, "PREPARE", query, <<>>) \o <<CallEv(sql[d], "PrepareContext", <<ctx, query>>, r)>>

PrepareContext(d, ctx, query, r) ==
    Simple("PrepareContext", d, ctx, query, <<>>, PrepareContextDo(d, ctx, query, r), r)

Prepare(d, query, r) ==
    Simple("Prepare", d, Background, query, <<>>, PrepareContextDo(d, Background, query, r), r)

QueryContextDo(d, ctx, query, args, r) ==
    Trace(d, "QUERY", query, args) \o <<CallEv(sql[d], "QueryContext", <<ctx, query>> \o args, r)>>

QueryContext(d, ctx, query, args, r) ==
    Simple("QueryContext", d, ctx, query, args, QueryContextDo(d, ctx, query, args, r), r)

Query(d, query, args, r) ==
    Simple("Query", d, Background, query, args, QueryContextDo(d, Background, query, args, r), r)

QueryRowContextDo(d, ctx, query, args, r) ==
    Trace(d, "QUERY ROW", query, args)
        \o <<CallEv(sql[d], "QueryRowContext", <<ctx, query>> \o args, r)>>

QueryRowContext(d, ctx, query, args, r) ==
    Simple("QueryRowContext", d, ctx, query, args, QueryRowContextDo(d, ctx, query, args, r), r)

QueryRow(d, query, args, r) ==
    Simple("QueryRow", d, Background, query, args,
           QueryRowContextDo(d, Background, query, args, r), r)

\* ------------------------------------------------------ Begin / BeginTx
\* The handle the next successful Begin creates.
NextTx == Cardinality(live)
\* The answers of Db.Begin / Db.BeginTx while fewer than cap transactions exist.
BeginAnswers(cap) ==
    (IF NextTx <= cap /\ NextTx \in Txs THEN {<<"sqlTx", Nil>>} ELSE {})
        \cup {<<Nil, e>> : e \in Errs}
TxOptions == {"nil", "read-only"}

\* Variant: the new handle keeps the sink newDSL gave it.
BegunWithoutSink(t) ==
    LET tx == NewTx(dialect[DB], t) IN
    /\ live' = live \cup {t}
    /\ dialect' = [dialect EXCEPT ![t] = tx.dialect]
    /\ sql' = [sql EXCEPT ![t] = tx.sql]
    /\ qf' = [qf EXCEPT ![t] = tx.qf]
    /\ qfOnce' = [qfOnce EXCEPT ![t] = tx.qfOnce]
    /\ logger' = [logger EXCEPT ![t] = tx.logger]
    /\ Tx' = [Tx EXCEPT ![t] = "open"]

\* Variant: the connection hands out one sql.Tx again and again, so that a
\* new handle puts the transactions of the earlier handles back in use.
BegunSharesTx(t) ==
    LET tx == NewTx(dialect[DB], t) IN
    /\ live' = live \cup {t}
    /\ dialect' = [dialect EXCEPT ![t] = tx.dialect]
    /\ sql' = [sql EXCEPT ![t] = tx.sql]
    /\ qf' = [qf EXCEPT ![t] = tx.qf]
    /\ qfOnce' = [qfOnce EXCEPT ![t] = tx.qfOnce]
    /\ logger' = [logger EXCEPT ![t] = logger[DB]]
    /\ Tx' = [u \in Txs |-> IF u \in live \cup {t} THEN "open" ELSE Tx[u]]

\* tx := NewTx(d.dialect, sqlTx); tx.Logger(d.logger)
Begun(t) ==
    LET tx == NewTx(dialect[DB], t) IN
    /\ live' = live \cup {t}
    /\ dialect' = [dialect EXCEPT ![t] = tx.dialect]
    /\ sql' = [sql EXCEPT ![t] = tx.sql]
    /\ qf' = [qf EXCEPT ![t] = tx.qf]
    /\ qfOnce' = [qfOnce EXCEPT ![t] = tx.qfOnce]
    /\ logger' = [logger EXCEPT ![t] = logger[DB]]
    /\ Tx' = [Tx EXCEPT ![t] = "open"]

\* Variant: a handle is built and the sink told whatever the connection answered.
BeginDoKeepsHandle(op, ctx, opts, a, r) ==
    /\ CanCall
    /\ NextTx \in Txs
    /\ Begun(NextTx)
    /\ obs' = Obs(op, DB, ctx, "", opts,
                  <<CallEv(sql[DB], op, a, r)>> \o Trace(DB, "BEGIN", "", <<>>),
                  <<"tx", r[2]>>, NextTx, NilQF)
    /\ UNCHANGED <<nctor, wrap, pc, cur>>

BeginDo(op, ctx, opts, a, r) ==
    /\ CanCall
    /\ IF r[2] # Nil
       THEN /\ obs' = Obs(op, DB, ctx, "", opts, <<CallEv(sql[DB], op, a, r)>>, <<Nil, r[2]>>, 0, NilQF)
            /\ UNCHANGED <<live, logger, dialect, sql, qf, qfOnce, Tx>>
       ELSE /\ Begun(NextTx)
            /\ obs' = Obs(op, DB, ctx, "", opts, <<CallEv(sql[DB], op, a, r)>>,
                          <<"tx", Nil>>, NextTx, NilQF)
    /\ UNCHANGED <<nctor, wrap, pc, cur>>

Begin(r) == BeginDo("Begin", "", <<>>, <<>>, r)

BeginTx(ctx, opts, r) == BeginDo("BeginTx", ctx, <<opts>>, <<ctx, opts>>, r)

\* ------------------------------------------------------ Commit / Rollback
\* The underlying sql.Tx: it finishes at its first Commit or Rollback, whether
\* that succeeds or fails, and answers ErrTxDone ever after.
TxAnswers(td) == IF td \in Txs /\ Tx[td] = "open" THEN {Nil} \cup Errs ELSE {ErrTxDone}
TxAfter(td, m, r) ==
    IF Tx[td] # "open" THEN Tx[td]
    ELSE IF r # Nil THEN "failed"
    ELSE IF m = "Commit" THEN "committed" ELSE "rolledback"

CommitDoTraceLast(td, r) ==
    <<CallEv(sql[td], "Commit", <<>>, <<r>>)>> \o Trace(td, "COMMIT", "", <<>>)

CommitDo(td, r) ==
    Trace(td, "COMMIT", "", <<>>) \o <<CallEv(sql[td], "Commit", <<>>, <<r>>)>>

RollbackDo(td, r) ==
    Trace(td, "ROLLBACK", "", <<>>) \o <<CallEv(sql[td], "Rollback", <<>>, <<r>>)>>

\* Variant: the wrapper answers for a finished transaction itself.
CommitGuarded(td, r) ==
    /\ CanCall
    /\ td \in live \cap Txs
    /\ r \in TxAnswers(td)
    /\ Tx' = [Tx EXCEPT ![td] = TxAfter(td, "Commit", r)]
    /\ obs' = Obs("Commit", td, "", "", <<>>,
                  IF Tx[td] = "open" THEN CommitDo(td, r) ELSE <<>>, <<r>>, 0, NilQF)
    /\ UNCHANGED <<live, logger, dialect, sql, qf, qfOnce, nctor, wrap, pc, cur>>

Commit(td, r) ==
    /\ CanCall
    /\ td \in live \cap Txs
    /\ r \in TxAnswers(td)
    /\ Tx' = [Tx EXCEPT ![td] = TxAfter(td, "Commit", r)]
    /\ obs' = Obs("Commit", td, "", "", <<>>, CommitDo(td, r), <<r>>, 0, NilQF)
    /\ UNCHANGED <<live, logger, dialect, sql, qf, qfOnce, nctor, wrap, pc, cur>>

Rollback(td, r) ==
    /\ CanCall
    /\ td \in live \cap Txs
    /\ r \in TxAnswers(td)
    /\ Tx' = [Tx EXCEPT ![td] = TxAfter(td, "Rollback", r)]
    /\ obs' = Obs("Rollback", td, "", "", <<>>, RollbackDo(td, r), <<r>>, 0, NilQF)
    /\ UNCHANGED <<live, logger, dialect, sql, qf, qfOnce, nctor, wrap, pc, cur>>

\* ------------------------------------------------------------------ Wrap
\* Wrap(fn) registers its deferred closure and calls fn.
WrapCall(td) ==
    /\ CanCall
    /\ wrap.pc = "idle"
    /\ td \in live \cap Txs
    /\ wrap' = [IdleWrap EXCEPT !.pc = "inWork", !.td = td, !.via = "Wrap"]
    /\ obs' = NoObs
    /\ UNCHANGED <<live, logger, dialect, sql, qf, qfOnce, nctor, Tx, pc, cur>>

\* Variant: a failure of Begin is not reported.
WithTxSwallowsBeginErr(r) ==
    /\ CanCall
    /\ wrap.pc = "idle"
    /\ IF r[2] # Nil
       THEN /\ obs' = Obs("WithTx", DB, "", "", <<>>, <<CallEv(sql[DB], "Begin", <<>>, r)>>,
                          <<"return", Nil>>, 0, NilQF)
            /\ UNCHANGED <<live, logger, dialect, sql, qf, qfOnce, Tx, wrap>>
       ELSE /\ Begun(NextTx)
            /\ wrap' = [IdleWrap EXCEPT !.pc = "inWork", !.td = NextTx, !.via = "WithTx",
                                        !.ev = <<CallEv(sql[DB], "Begin", <<>>, r)>>]
            /\ obs' = NoObs
    /\ UNCHANGED <<nctor, pc, cur>>

\* WithTx(fn): Begin, then tx.Wrap(func() error { return fn(tx) }).
WithTx(r) ==
    /\ CanCall
    /\ wrap.pc = "idle"
    /\ IF r[2] # Nil
       THEN /\ obs' = Obs("WithTx", DB, "", "", <<>>, <<CallEv(sql[DB], "Begin", <<>>, r)>>,
                          <<"return", r[2]>>, 0, NilQF)
            /\ UNCHANGED <<live, logger, dialect, sql, qf, qfOnce, Tx, wrap>>
       ELSE /\ Begun(NextTx)
            /\ wrap' = [IdleWrap EXCEPT !.pc = "inWork", !.td = NextTx, !.via = "WithTx",
                                        !.ev = <<CallEv(sql[DB], "Begin", <<>>, r)>>]
            /\ obs' = NoObs
    /\ UNCHANGED <<nctor, pc, cur>>

\* The ways fn can end: a return of nil or of an error, a panic, or
\* runtime.Goexit.  The values a panic can carry: "boom" stands for any
\* non-nil value; panic(nil) carries Nil when the program is built with Go
\* before 1.21 or runs with GODEBUG=panicnil=1 (the default when the main
\* module's go.mod names a Go older than 1.21), and a *runtime.PanicNilError
\* otherwise.
PanicVals == {"boom", PanicNilError, Nil}

WorkEnds(kind, val) ==
    /\ CanCall
    /\ wrap.pc = "inWork"
    /\ wrap' = [wrap EXCEPT !.pc = "deferred", !.kind = kind, !.val = val]
    /\ obs' = NoObs
    /\ UNCHANGED <<live, logger, dialect, sql, qf, qfOnce, nctor, Tx, pc, cur>>

WorkReturns(err) == WorkEnds("return", err)
WorkPanics(v) == WorkEnds("panic", v)
WorkGoexits == WorkEnds("goexit", Nil)

\* recover() in the deferred closure: the value of the panic in progress, nil
\* when there is none (and nil for a panic that carries nil).
Recover(kind, val) == IF kind = "panic" THEN val ELSE Nil

\* Variants of the deferred closure, each with one slip.
WrapDeferInverted(td, kind, val, r) ==
    LET p == Recover(kind, val)
        err == IF kind = "return" THEN val ELSE Nil IN
    IF p # Nil
    THEN RollbackDo(td, r) \o <<LeaveEv("panic", p)>>
    ELSE IF err = Nil
         THEN RollbackDo(td, r) \o <<LeaveEv("return", IF r # Nil THEN r ELSE err)>>
         ELSE CommitDo(td, r) \o <<LeaveEv("return", IF r # Nil THEN r ELSE err)>>

WrapDeferOverwritesErr(td, kind, val, r) ==
    LET p == Recover(kind, val)
        err == IF kind = "return" THEN val ELSE Nil IN
    IF p # Nil
    THEN RollbackDo(td, r) \o <<LeaveEv("panic", p)>>
    ELSE IF err # Nil
         THEN RollbackDo(td, r) \o <<LeaveEv("return", r)>>
         ELSE CommitDo(td, r) \o <<LeaveEv("return", r)>>

WrapDeferKeepsErr(td, kind, val, r) ==
    LET p == Recover(kind, val)
        err == IF kind = "return" THEN val ELSE Nil IN
    IF p # Nil
    THEN RollbackDo(td, r) \o <<LeaveEv("panic", p)>>
    ELSE IF err # Nil
         THEN RollbackDo(td, r) \o <<LeaveEv("return", err)>>
         ELSE CommitDo(td, r) \o <<LeaveEv("return", IF r # Nil THEN r ELSE err)>>

WrapDeferDropsCommitErr(td, kind, val, r) ==
    LET p == Recover(kind, val)
        err == IF kind = "return" THEN val ELSE Nil IN
    IF p # Nil
    THEN RollbackDo(td, r) \o <<LeaveEv("panic", p)>>
    ELSE IF err # Nil
         THEN RollbackDo(td, r) \o <<LeaveEv("return", IF r # Nil THEN r ELSE err)>>
         ELSE CommitDo(td, r) \o <<LeaveEv("return", err)>>

\* The deferred closure of Wrap, for fn's outcome (kind, val) and the
\* transaction answering r: the calls it makes, then how control leaves Wrap
\* (a recovered panic that is not raised again makes Wrap return).
WrapDefer(td, kind, val, r) ==
    LET p == Recover(kind, val)
        err == IF kind = "return" THEN val ELSE Nil IN
    IF p # Nil
    THEN RollbackDo(td, r) \o <<LeaveEv("panic", p)>>
    ELSE IF err # Nil
         THEN RollbackDo(td, r) \o <<LeaveEv("return", IF r # Nil THEN r ELSE err)>>
         ELSE CommitDo(td, r)
              \o <<IF kind = "goexit" THEN LeaveEv("goexit", Nil)
                                      ELSE LeaveEv("return", IF r # Nil THEN r ELSE err)>>

Last(s) == s[Len(s)]

WrapDeferred(r) ==
    /\ wrap.pc = "deferred"
    /\ r \in TxAnswers(wrap.td)
    /\ LET ev == WrapDefer(wrap.td, wrap.kind, wrap.val, r)
           m == ev[Len(ev) - 1].m
       IN /\ Tx' = [Tx EXCEPT ![wrap.td] = TxAfter(wrap.td, m, r)]
          /\ obs' = Obs(wrap.via, wrap.td, "", "", <<wrap.kind, wrap.val>>,
                        wrap.ev \o ev, <<Last(ev).m, Last(ev).a[1]>>, wrap.td, NilQF)
    /\ wrap' = IdleWrap
    /\ UNCHANGED <<live, logger, dialect, sql, qf, qfOnce, nctor, pc, cur>>

\* ---------------------------------------------------------- DSL.Trace call
\* Trace is exported: a direct call.  The observation keeps op in its ctx field.
TraceCall(d, op, sqlString, args) ==
    Simple("Trace", d, op, sqlString, args, Trace(d, op, sqlString, args), <<>>)

\* --------------------------------------------------------- DSL.queryFactory
\* Some operation of caller p calls d.queryFactory(): d.qfOnce.Do(f).
QueryFactoryCall(p, d) ==
    /\ pc[p] = "idle"
    /\ wrap.pc = "idle"
    /\ d \in live
    /\ pc' = [pc EXCEPT ![p] = "onceDo"]
    /\ cur' = [cur EXCEPT ![p] = [d |-> d, got |-> NilQF]]
    /\ obs' = NoObs
    /\ UNCHANGED <<live, logger, dialect, sql, qf, qfOnce, nctor, Tx, wrap>>

\* Variant: no Once at all, every call constructs.
OnceDoEveryCall(p) ==
    /\ pc[p] = "onceDo"
    /\ pc' = [pc EXCEPT ![p] = "onceF"]
    /\ UNCHANGED <<live, logger, dialect, sql, qf, qfOnce, nctor, Tx, wrap, cur, obs>>

\* sync.Once.Do, fast path: done already set, f is not run.
OnceDo(p) ==
    /\ pc[p] = "onceDo"
    /\ pc' = [pc EXCEPT ![p] = IF qfOnce[cur[p].d].done THEN "qfReturn" ELSE "onceLock"]
    /\ UNCHANGED <<live, logger, dialect, sql, qf, qfOnce, nctor, Tx, wrap, cur, obs>>

\* Variant: check-then-act without the mutex.
OnceLockNoWait(p) ==
    /\ pc[p] = "onceLock"
    /\ qfOnce' = [qfOnce EXCEPT ![cur[p].d].m = p]
    /\ pc' = [pc EXCEPT ![p] = "onceSlow"]
    /\ UNCHANGED <<live, logger, dialect, sql, qf, nctor, Tx, wrap, cur, obs>>

\* doSlow: o.m.Lock()
OnceLock(p) ==
    /\ pc[p] = "onceLock"
    /\ qfOnce[cur[p].d].m = 0
    /\ qfOnce' = [qfOnce EXCEPT ![cur[p].d].m = p]
    /\ pc' = [pc EXCEPT ![p] = "onceSlow"]
    /\ UNCHANGED <<live, logger, dialect, sql, qf, nctor, Tx, wrap, cur, obs>>

\* doSlow: under the lock, run f only if done is still unset.
OnceSlow(p) ==
    /\ pc[p] = "onceSlow"
    /\ pc' = [pc EXCEPT ![p] = IF qfOnce[cur[p].d].done THEN "onceUnlock" ELSE "onceF"]
    /\ UNCHANGED <<live, logger, dialect, sql, qf, qfOnce, nctor, Tx, wrap, cur, obs>>

\* d.qf is an interface value: two words, not written atomically.  Between
\* the two writes it is torn.
Torn(d) == [dsl |-> d, id |-> 0]
Usable(f) == f.id > 0

\* f: d.qf = exec.NewQueryFactory(d): the constructor runs and the write of
\* d.qf begins ...
OnceF(p) ==
    /\ pc[p] = "onceF"
    /\ qf' = [qf EXCEPT ![cur[p].d] = Torn(cur[p].d)]
    /\ nctor' = [nctor EXCEPT ![cur[p].d] = @ + 1]
    /\ pc' = [pc EXCEPT ![p] = "onceAssign"]
    /\ UNCHANGED <<live, logger, dialect, sql, qfOnce, Tx, wrap, cur, obs>>

\* ... and the write of d.qf completes.
OnceAssign(p) ==
    /\ pc[p] = "onceAssign"
    /\ qf' = [qf EXCEPT ![cur[p].d] = [dsl |-> cur[p].d, id |-> nctor[cur[p].d]]]
    /\ pc' = [pc EXCEPT ![p] = "onceStore"]
    /\ UNCHANGED <<live, logger, dialect, sql, qfOnce, nctor, Tx, wrap, cur, obs>>

\* deferred in doSlow: o.done.Store(1)
OnceStore(p) ==
    /\ pc[p] = "onceStore"
    /\ qfOnce' = [qfOnce EXCEPT ![cur[p].d].done = TRUE]
    /\ pc' = [pc EXCEPT ![p] = "onceUnlock"]
    /\ UNCHANGED <<live, logger, dialect, sql, qf, nctor, Tx, wrap, cur, obs>>

\* deferred in doSlow: o.m.Unlock()
OnceUnlock(p) ==
    /\ pc[p] = "onceUnlock"
    /\ qfOnce' = [qfOnce EXCEPT ![cur[p].d].m = 0]
    /\ pc' = [pc EXCEPT ![p] = "qfReturn"]
    /\ UNCHANGED <<live, logger, dialect, sql, qf, nctor, Tx, wrap, cur, obs>>

\* return d.qf
QueryFactoryReturn(p) ==
    /\ pc[p] = "qfReturn"
    /\ cur' = [cur EXCEPT ![p].got = qf[cur[p].d]]
    /\ pc' = [pc EXCEPT ![p] = "qfReturned"]
    /\ UNCHANGED <<live, logger, dialect, sql, qf, qfOnce, nctor, Tx, wrap, obs>>

\* ------------------------------------------------------------------ Scan*
\* The answers of the executor the factory builds.
ScanAnswers == {<<Nil>>} \cup {<<e>> : e \in Errs}
FoundAnswers == {<<"true", Nil>>, <<"false", Nil>>} \cup {<<"false", e>> : e \in Errs}

\* d.queryFactory().FromSQL(query, args...).<scan>(ctx, i), once the caller
\* holds the factory (a nil factory cannot be called: the caller panics).
ScanDo(p, scan, ctx, query, args, r) ==
    IF ~Usable(cur[p].got)
    THEN <<LeaveEv("panic", "nil pointer dereference")>>
    ELSE <<CallEv(cur[p].got.dsl, "FromSQL", <<query>> \o args, <<"executor">>),
           CallEv(cur[p].got.dsl, scan, <<ctx>>, r)>>

Scan(p, op, scan, ctx, query, args, r) ==
    /\ pc[p] = "qfReturned"
    /\ pc' = [pc EXCEPT ![p] = "idle"]
    /\ obs' = Obs(op, cur[p].d, ctx, query, args, ScanDo(p, scan, ctx, query, args, r),
                  IF ~Usable(cur[p].got) THEN <<"panic">> ELSE r, 0, cur[p].got)
    /\ UNCHANGED <<live, logger, dialect, sql, qf, qfOnce, nctor, Tx, wrap, cur>>

ScanStructsContext(p, ctx, query, args, r) ==
    Scan(p, "ScanStructsContext", "ScanStructsContext", ctx, query, args, r)
ScanStructs(p, query, args, r) ==
    Scan(p, "ScanStructs", "ScanStructsContext", Background, query, args, r)
ScanStructContext(p, ctx, query, args, r) ==
    Scan(p, "ScanStructContext", "ScanStructContext", ctx, query, args, r)
ScanStruct(p, query, args, r) ==
    Scan(p, "ScanStruct", "ScanStructContext", Background, query, args, r)
ScanValsContext(p, ctx, query, args, r) ==
    Scan(p, "ScanValsContext", "ScanValsContext", ctx, query, args, r)
ScanVals(p, query, args, r) ==
    Scan(p, "ScanVals", "ScanValsContext", Background, query, args, r)
ScanValContext(p, ctx, query, args, r) ==
    Scan(p, "ScanValContext", "ScanValContext", ctx, query, args, r)
ScanVal(p, query, args, r) ==
    Scan(p, "ScanVal", "ScanValContext", Background, query, args, r)

\* ------------------------------------------------------- dataset builders
\* new<X>Dataset(d.dialect, d.queryFactory()): the dataset's dialect and factory.
Dataset(p, op) ==
    /\ pc[p] = "qfReturned"
    /\ pc' = [pc EXCEPT ![p] = "idle"]
    /\ obs' = Obs(op, cur[p].d, "", "", <<>>, <<>>, <<dialect[cur[p].d]>>, 0, cur[p].got)
    /\ UNCHANGED <<live, logger, dialect, sql, qf, qfOnce, nctor, Tx, wrap, cur>>

From(p) == Dataset(p, "From")
Select(p) == Dataset(p, "Select")
Update(p) == Dataset(p, "Update")
Insert(p) == Dataset(p, "Insert")
Delete(p) == Dataset(p, "Delete")
Truncate(p) == Dataset(p, "Truncate")

\* ------------------------------------------------------------------ specs
Owner == CHOOSE p \in Procs : \A q \in Procs : p <= q
Q1 == "SELECT 1"
A1 == <<"7">>
Ctx1 == "ctx1"

QueryFactorySteps(p) ==
    \/ OnceDo(p)
    \/ OnceLock(p)
    \/ OnceSlow(p)
    \/ OnceF(p)
    \/ OnceAssign(p)
    \/ OnceStore(p)
    \/ OnceUnlock(p)
    \/ QueryFactoryReturn(p)

\* the operations that use the factory, over contexts CS, queries QS, argument
\* lists AS and executor answers RS (one result) and FS (found, one result)
QueryFactoryUsers(p, CS, QS, AS, RS, FS) ==
    \/ \E c \in CS, q \in QS, a \in AS, r \in RS : ScanStructsContext(p, c, q, a, r)
    \/ \E q \in QS, a \in AS, r \in RS : ScanStructs(p, q, a, r)
    \/ \E c \in CS, q \in QS, a \in AS, r \in FS : ScanStructContext(p, c, q, a, r)
    \/ \E q \in QS, a \in AS, r \in FS : ScanStruct(p, q, a, r)
    \/ \E c \in CS, q \in QS, a \in AS, r \in RS : ScanValsContext(p, c, q, a, r)
    \/ \E q \in QS, a \in AS, r \in RS : ScanVals(p, q, a, r)
    \/ \E c \in CS, q \in QS, a \in AS, r \in FS : ScanValContext(p, c, q, a, r)
    \/ \E q \in QS, a \in AS, r \in FS : ScanVal(p, q, a, r)
    \/ From(p)
    \/ Select(p)
    \/ Update(p)
    \/ Insert(p)
    \/ Delete(p)
    \/ Truncate(p)

\* the calls that trace and forward, on handles DS, with connection errors ES
Forwarders(DS, CS, QS, AS, ES) ==
    \/ \E d \in DS, c \in CS, q \in QS, a \in AS, r \in ExecAnswers :
           r[2] \in ES \cup {Nil} /\ ExecContext(d, c, q, a, r)
    \/ \E d \in DS, q \in QS, a \in AS, r \in ExecAnswers :
           r[2] \in ES \cup {Nil} /\ Exec(d, q, a, r)
    \/ \E d \in DS, c \in CS, q \in QS, r \in StmtAnswers :
           r[2] \in ES \cup {Nil} /\ PrepareContext(d, c, q, r)
    \/ \E d \in DS, q \in QS, r \in StmtAnswers :
           r[2] \in ES \cup {Nil} /\ Prepare(d, q, r)
    \/ \E d \in DS, c \in CS, q \in QS, a \in AS, r \in RowsAnswers :
           r[2] \in ES \cup {Nil} /\ QueryContext(d, c, q, a, r)
    \/ \E d \in DS, q \in QS, a \in AS, r \in RowsAnswers :
           r[2] \in ES \cup {Nil} /\ Query(d, q, a, r)
    \/ \E d \in DS, c \in CS, q \in QS, a \in AS, r \in RowAnswers :
           (ES = {} => r = <<"row">>) /\ QueryRowContext(d, c, q, a, r)
    \/ \E d \in DS, q \in QS, a \in AS, r \in RowAnswers :
           (ES = {} => r = <<"row">>) /\ QueryRow(d, q, a, r)

\* the transaction lifecycle: at most cap transactions, sinks LS, errors ES of
\* the connection and of the transaction, outcomes of work WS (returned
\* errors) and PS (panic values)
Lifecycle(cap, LS, ES, WS, PS) ==
    \/ \E d \in Handles, l \in LS : Logger(d, l)
    \/ \E r \in BeginAnswers(cap) : r[2] \in ES \cup {Nil} /\ Begin(r)
    \/ \E c \in Ctxs, o \in TxOptions, r \in BeginAnswers(cap) :
           r[2] \in ES \cup {Nil} /\ BeginTx(c, o, r)
    \/ \E r \in BeginAnswers(cap) : r[2] \in ES \cup {Nil} /\ WithTx(r)
    \/ \E td \in Txs : \E r \in TxAnswers(td) \ (Errs \ ES) : Commit(td, r)
    \/ \E td \in Txs : \E r \in TxAnswers(td) \ (Errs \ ES) : Rollback(td, r)
    \/ \E td \in Txs : WrapCall(td)
    \/ \E err \in {Nil} \cup WS : WorkReturns(err)
    \/ \E v \in PS : WorkPanics(v)
    \/ WorkGoexits
    \/ \E r \in TxAnswers(wrap.td) \ (Errs \ ES) : WrapDeferred(r)

\* Spec: every operation, used by one caller at a time (the work of a Wrap may
\* call the handles while it runs), with at most MaxBegun transactions and one
\* input per operation.
Next ==
    \/ Lifecycle(MaxBegun, {Nil, "L1"}, {}, {"e1"}, {"boom"})
    \/ \E d \in Handles : TraceCall(d, "TRACE", Q1, A1)
    \/ Forwarders(Handles, {Ctx1}, {Q1}, {A1}, {})
    \/ \E d \in Handles : QueryFactoryCall(Owner, d)
    \/ QueryFactorySteps(Owner)
    \/ QueryFactoryUsers(Owner, {Ctx1}, {Q1}, {A1}, {<<Nil>>}, {<<"true", Nil>>})

Spec == InitDB("postgres") /\ [][Next]_vars

\* SpecWrap: the transaction lifecycle alone, over every sink, error and
\* outcome of work.
NextWrap == Lifecycle(MaxBegun, Sinks \cup {Nil}, Errs, Errs, PanicVals)

SpecWrap == InitDB("postgres") /\ [][NextWrap]_vars

\* SpecQF: NumProcs callers use the Database's query factory concurrently.
NextQF ==
    \E p \in Procs :
        \/ QueryFactoryCall(p, DB)
        \/ QueryFactorySteps(p)
        \/ QueryFactoryUsers(p, {Ctx1}, {Q1}, {A1}, {<<Nil>>}, {<<"true", Nil>>})

SpecQF == InitDB("postgres") /\ [][NextQF]_vars

\* SpecCalls: the tracing calls on the Database, over every shape of input.
TraceOps == {"EXEC", "COMMIT"}

NextCalls ==
    \/ \E l \in Sinks \cup {Nil} : Logger(DB, l)
    \/ \E op \in TraceOps, q \in Queries, a \in ArgLists : TraceCall(DB, op, q, a)
    \/ Forwarders({DB}, Ctxs, Queries, ArgLists, Errs)
    \/ QueryFactoryCall(Owner, DB)
    \/ QueryFactorySteps(Owner)
    \/ QueryFactoryUsers(Owner, Ctxs, Queries, ArgLists, ScanAnswers, FoundAnswers)

SpecCalls == Init /\ [][NextCalls]_vars

\* ================================================================= claims
\* A completed Wrap (or a WithTx whose Begin succeeded): what work did, the
\* calls Wrap made on the transaction, and how control left Wrap.
WrapDone == obs.op \in {"Wrap", "WithTx"} /\ obs.tx \in Txs
WorkKind == obs.args[1]
WorkVal == obs.args[2]
TxCalls(m) == {i \in DOMAIN obs.ev : obs.ev[i].k = "call" /\ obs.ev[i].m = m}
Terminal == TxCalls("Commit") \cup TxCalls("Rollback")
TerminalAnswers == {obs.ev[i].r[1] : i \in Terminal}
WrapLeft == Last(obs.ev)
Returned(v) == WrapLeft.k = "leave" /\ WrapLeft.m = "return" /\ WrapLeft.a = <<v>>

\* C1: when work returns nil, Wrap calls Commit on the transaction exactly
\* once and Rollback never, raises no panic, and returns nil if the Commit
\* succeeded.
C1_CommitOnSuccess ==
    (WrapDone /\ WorkKind = "return" /\ WorkVal = Nil) =>
        /\ Cardinality(TxCalls("Commit")) = 1
        /\ TxCalls("Rollback") = {}
        /\ WrapLeft.m = "return"
        /\ (TerminalAnswers = {Nil} => Returned(Nil))

C1_Witness ==
    /\ WrapDone /\ WorkKind = "return" /\ WorkVal = Nil
    /\ TerminalAnswers = {Nil}
    /\ Tx[obs.tx] = "committed"

\* C2: when work returns an error E and the transaction's answer to Wrap is
\* success, Wrap returns exactly E, after exactly one Rollback and no Commit.
C2_ErrorReturnedUnchanged ==
    (WrapDone /\ WorkKind = "return" /\ WorkVal # Nil /\ TerminalAnswers \subseteq {Nil}) =>
        /\ Returned(WorkVal)
        /\ Cardinality(TxCalls("Rollback")) = 1
        /\ TxCalls("Commit") = {}

C2_Witness ==
    /\ WrapDone /\ WorkKind = "return" /\ WorkVal = "e1"
    /\ TerminalAnswers = {Nil}
    /\ Tx[obs.tx] = "rolledback"

C4_PanicReRaised ==
    (WrapDone /\ WorkKind = "panic") =>
        /\ WrapLeft.m = "panic"
        /\ WrapLeft.a = <<WorkVal>>

\* C5: whether work returns nil, returns an error or panics, Wrap makes exactly
\* one call, Commit or Rollback, on the transaction, before control leaves
\* Wrap; after a panic the call is Rollback, the panic is raised again after
\* it, and Commit is not called.
C5_OneTerminalCall ==
    (WrapDone /\ WorkKind \in {"return", "panic"}) =>
        /\ Cardinality(Terminal) = 1
        /\ \A i \in Terminal : i < Len(obs.ev)
        /\ WrapLeft.k = "leave"
        /\ (WorkKind = "panic" =>
               /\ TxCalls("Commit") = {}
               /\ Cardinality(TxCalls("Rollback")) = 1
               /\ WrapLeft.m = "panic")

\* C6: when work returns nil and the Commit Wrap performs fails with C, Wrap
\* returns C and calls no Rollback.
C6_CommitErrorReturned ==
    (WrapDone /\ WorkKind = "return" /\ WorkVal = Nil /\ Nil \notin TerminalAnswers) =>
        /\ Cardinality(TxCalls("Commit")) = 1
        /\ TxCalls("Rollback") = {}
        /\ \A C \in TerminalAnswers : Returned(C)

C6_Witness ==
    /\ WrapDone /\ WorkKind = "return" /\ WorkVal = Nil
    /\ TerminalAnswers = {"e1"}
    /\ Tx[obs.tx] = "failed"

\* The callers that hold the factory queryFactory() returned to them.
Holders == {p \in Procs : cur[p].d \in Handles /\ pc[p] \in {"qfReturned", "idle"}}

\* C7: however the concurrent callers of one handle interleave, the factory
\* constructor runs at most once, and exactly once when a caller has the
\* factory; every caller gets the same factory, never nil, never half written.
C7_FactoryOnce ==
    /\ \A d \in Handles : nctor[d] <= 1
    /\ \A p \in Holders :
           /\ Usable(cur[p].got)
           /\ nctor[cur[p].d] = 1
           /\ \A q \in Holders : cur[q].d = cur[p].d => cur[q].got = cur[p].got

\* one caller already has the factory while another, which found the Once
\* not done, is in its slow path
C7_Witness ==
    \E p, q \in Procs :
        /\ p # q
        /\ pc[p] = "qfReturned" /\ Usable(cur[p].got)
        /\ pc[q] = "onceSlow" /\ cur[q].d = cur[p].d

\* C8: once a handle's factory exists, no step of any operation replaces it
\* or resets it.
C8_FactoryKept ==
    [][\A h \in Handles : Usable(qf[h]) => qf'[h] = qf[h]]_vars

\* a Wrap has completed on a transaction whose factory was created before
C8_Witness ==
    /\ WrapDone /\ obs.op = "Wrap"
    /\ Usable(qf[obs.tx])
    /\ Usable(qf[DB])

\* The trace operation each tracing call passes to Trace.
TraceOpOf(o) ==
    CASE o = "Trace" -> obs.ctx
      [] o \in {"Exec", "ExecContext"} -> "EXEC"
      [] o \in {"Prepare", "PrepareContext"} -> "PREPARE"
      [] o \in {"Query", "QueryContext"} -> "QUERY"
      [] o \in {"QueryRow", "QueryRowContext"} -> "QUERY ROW"
Tracers == {"Trace", "Exec", "ExecContext", "Prepare", "PrepareContext",
            "Query", "QueryContext", "QueryRow", "QueryRowContext"}
Printfs(ev) == SelectSeq(ev, LAMBDA e : e.k = "printf")
\* how the argument lists of the model print under %+v
ArgsText(a) ==
    CASE a = <<"7">> -> <<"[", "7", "]">>
      [] a = <<"7", "x">> -> <<"[", "7", " ", "x", "]">>
      [] OTHER -> <<"[", "]">>
\* the message the claim gives for op, sql and args
Message(op, sqlString, args) ==
    IF sqlString = "" THEN <<"[goqu] ", op>>
    ELSE IF args = <<>> THEN <<"[goqu] ", op, " [query:=", BQ, sqlString, BQ, "]">>
    ELSE <<"[goqu] ", op, " [query:=", BQ, sqlString, BQ, " args:=">> \o ArgsText(args) \o <<"]">>

\* C9: with a sink, Trace prints exactly one message, whose shape depends only
\* on whether sql and args are empty; without a sink it prints nothing, and
\* the calling operation still makes its call on the connection.
C9_TraceShape ==
    (obs.op \in Tracers) =>
        /\ IF logger[obs.h] = Nil
           THEN Printfs(obs.ev) = <<>>
           ELSE Printfs(obs.ev) =
                    <<PrintfEv(logger[obs.h], Message(TraceOpOf(obs.op), obs.query, obs.args))>>
        /\ \A i \in DOMAIN obs.ev : obs.ev[i].k # "leave"
        /\ (obs.op # "Trace" =>
               /\ Last(obs.ev).k = "call"
               /\ Last(obs.ev).r = obs.ret)

\* Trace called with empty sql and arguments, on a handle with a sink
C9_Witness ==
    /\ obs.op = "Trace" /\ obs.query = "" /\ obs.args = <<"7", "x">>
    /\ logger[obs.h] = "L2"
    /\ Len(Printfs(obs.ev)) = 1

\* What Commit / Rollback (m) of a handle with sink l does, the transaction
\* answering r, as the claim has it: the trace entry, its message, the call.
Completion(h, l, m, r) ==
    LET name == IF m = "Commit" THEN "COMMIT" ELSE "ROLLBACK" IN
    <<TraceEv(name, "", <<>>)>>
        \o (IF l = Nil THEN <<>> ELSE <<PrintfEv(l, <<"[goqu] ", name>>)>>)
        \o <<CallEv(sql[h], m, <<>>, <<r>>)>>
\* what a completed Wrap did between its start and control leaving it
WrapActs ==
    SubSeq(obs.ev, IF obs.op = "WithTx" THEN 2 ELSE 1, Len(obs.ev) - 1)

\* C10: Commit and Rollback each make one trace entry, COMMIT or ROLLBACK,
\* with empty sql and so no query/args suffix, before they call the
\* transaction; a Wrap makes exactly one of the two entries.
C10_CompletionTraced ==
    /\ (obs.op \in {"Commit", "Rollback"} =>
           obs.ev = Completion(obs.h, logger[obs.h], obs.op, obs.ret[1]))
    /\ (WrapDone =>
           \E m \in {"Commit", "Rollback"} : \E r \in TerminalAnswers :
               WrapActs = Completion(obs.tx, logger[obs.tx], m, r))

C10_Witness ==
    /\ obs.op = "Commit"
    /\ logger[obs.h] = "L1"
    /\ Len(obs.ev) = 3 /\ obs.ev[2].k = "printf" /\ obs.ev[3].k = "call"

\* A call of Begin or BeginTx that has just completed with the connection
\* refusing to start a transaction.
BeginFailed ==
    /\ obs' # obs
    /\ obs'.op \in {"Begin", "BeginTx"}
    /\ obs'.ev[1].k = "call" /\ obs'.ev[1].r[2] # Nil

\* C11: when the connection fails to start a transaction with E, Begin and
\* BeginTx return no handle together with exactly E, no TxDatabase comes into
\* being (no handle, no field of any handle and no transaction changes), and
\* neither Trace nor the sink is called.
C11_BeginFailure ==
    [][BeginFailed =>
          /\ obs'.ret = <<Nil, obs'.ev[1].r[2]>>
          /\ obs'.tx = 0
          /\ UNCHANGED <<live, logger, dialect, sql, qf, qfOnce, Tx>>
          /\ Len(obs'.ev) = 1
          /\ obs'.ev[1].conn = sql[DB] /\ obs'.ev[1].m = obs'.op]_vars

\* BeginTx has failed with e2 on a Database that has a sink
C11_Witness ==
    /\ obs.op = "BeginTx" /\ obs.ret = <<Nil, "e2">>
    /\ logger[DB] = "L1"
    /\ live = {DB}

\* SpecBegin: the transaction lifecycle on a Database of any dialect.
SpecBegin == Init /\ [][NextWrap]_vars

\* A call of Begin or BeginTx that has just completed with a new TxDatabase.
BeginSucceeded ==
    /\ obs' # obs
    /\ obs'.op \in {"Begin", "BeginTx"}
    /\ obs'.tx \in Txs

\* C12: the TxDatabase a successful Begin or BeginTx returns is a new handle
\* with the dialect and the sink (or absence of a sink) the Database had when
\* the call was made, whatever the dialect and the sink.
C12_TxInherits ==
    [][BeginSucceeded =>
          /\ obs'.ret = <<"tx", Nil>>
          /\ obs'.tx \notin live /\ live' = live \cup {obs'.tx}
          /\ dialect'[obs'.tx] = dialect[DB]
          /\ logger'[obs'.tx] = logger[DB]
          /\ dialect'[DB] = dialect[DB] /\ logger'[DB] = logger[DB]]_vars

\* a transaction begun on a mysql Database whose sink is L2
C12_Witness ==
    /\ obs.op \in {"Begin", "BeginTx"} /\ obs.tx \in Txs
    /\ dialect[obs.tx] = "mysql" /\ logger[obs.tx] = "L2"
    /\ dialect[DB] = "mysql" /\ logger[DB] = "L2"

\* WithTx has just returned because its Begin failed.
WithTxFailed == obs' # obs /\ obs'.op = "WithTx" /\ obs'.tx = 0
\* WithTx has just begun a transaction and called Wrap, which called work.
WithTxWorks == wrap.pc = "idle" /\ wrap'.pc = "inWork" /\ wrap'.via = "WithTx"
\* Control has just left a WithTx whose Begin succeeded.
WithTxLeft == obs' # obs /\ obs'.op = "WithTx" /\ obs'.tx \in Txs

\* C13: if Begin fails with E, WithTx returns E without calling work, Commit
\* or Rollback; if Begin succeeds, work is called once, on the TxDatabase just
\* begun, and control leaves WithTx as it leaves Wrap for that work: same
\* calls on the transaction, same returned error or raised panic.
C13_WithTx ==
    [][/\ WithTxFailed =>
             /\ obs'.ev = <<CallEv(sql[DB], "Begin", <<>>, obs'.ev[1].r)>>
             /\ obs'.ev[1].r[2] # Nil
             /\ obs'.ret = <<"return", obs'.ev[1].r[2]>>
             /\ wrap = IdleWrap /\ wrap' = IdleWrap
             /\ UNCHANGED <<live, Tx>>
       /\ WithTxWorks =>
             /\ wrap'.td \in Txs \ live /\ live' = live \cup {wrap'.td}
             /\ Tx'[wrap'.td] = "open"
             /\ wrap'.ev = <<CallEv(sql[DB], "Begin", <<>>, <<"sqlTx", Nil>>)>>
       /\ (wrap.pc = "inWork" => wrap' = wrap \/ wrap'.pc = "deferred")
       /\ (wrap.pc = "deferred" => wrap'.pc = "idle")
       /\ WithTxLeft =>
             /\ wrap.pc = "deferred" /\ wrap.via = "WithTx" /\ obs'.tx = wrap.td
             /\ obs'.ev[1] = wrap.ev[1]
             /\ \E r \in TxAnswers(wrap.td) :
                    LET w == WrapDefer(wrap.td, wrap.kind, wrap.val, r) IN
                    /\ Tail(obs'.ev) = w
                    /\ obs'.ret = <<Last(w).m, Last(w).a[1]>>]_vars

\* a WithTx whose work panicked has raised the panic again
C13_Witness ==
    /\ obs.op = "WithTx" /\ obs.tx \in Txs
    /\ obs.args = <<"panic", "boom">>
    /\ obs.ret = <<"panic", "boom">>
    /\ Tx[obs.tx] = "rolledback"

\* The Commit and Rollback calls the step just taken made on transactions.
StepTerminal ==
    IF obs' = obs THEN {}
    ELSE {i \in DOMAIN obs'.ev :
              obs'.ev[i].k = "call" /\ obs'.ev[i].m \in {"Commit", "Rollback"}}

NextTxs == Lifecycle(MaxTx, {Nil}, {"e1"}, {"e1"}, {"boom"})

SpecTxs == InitDB("postgres") /\ [][NextTxs]_vars

ContextForwarders == {"ExecContext", "PrepareContext", "QueryContext", "QueryRowContext"}
Calls(ev) == SelectSeq(ev, LAMBDA e : e.k = "call")

\* C15: ExecContext, PrepareContext, QueryContext and QueryRowContext call
\* Trace first, with EXEC, PREPARE, QUERY or QUERY ROW, the query and the
\* args (PREPARE: never any args), then call the connection once, with the
\* caller's context, query and args, and return what the connection answered,
\* a failure included: nothing is called after it.
C15_TraceThenForward ==
    (obs.op \in ContextForwarders) =>
        /\ Head(obs.ev) = TraceEv(TraceOpOf(obs.op), obs.query,
                                  IF obs.op = "PrepareContext" THEN <<>> ELSE obs.args)
        /\ (obs.op = "PrepareContext" => obs.args = <<>>)
        /\ Calls(obs.ev) = <<CallEv(sql[obs.h], obs.op, <<obs.ctx, obs.query>> \o obs.args,
                                    obs.ret)>>
        /\ Last(obs.ev).k = "call"
        /\ Len(obs.ev) = IF logger[obs.h] = Nil THEN 2 ELSE 3
        /\ \A i \in 2..(Len(obs.ev) - 1) : obs.ev[i].k = "printf"

\* an ExecContext whose connection failed, on a handle with a sink
C15_Witness ==
    /\ obs.op = "ExecContext" /\ obs.ctx = "ctx1" /\ obs.args = <<"7", "x">>
    /\ obs.ret = <<Nil, "e1">>
    /\ logger[obs.h] = "L1"
    /\ Len(obs.ev) = 3

\* A call of Commit or Rollback has just completed on a TxDatabase that was
\* committed or rolled back before the call.
LateCompletion ==
    /\ obs' # obs
    /\ obs'.op \in {"Commit", "Rollback"}
    /\ Tx[obs'.h] \in {"committed", "rolledback"}

\* C16: Commit and Rollback do not look at the state of the handle: called
\* after the transaction was committed or rolled back they still call Trace,
\* then the transaction, once, and return the transaction's answer as it is.
C16_LateCallForwarded ==
    [][LateCompletion =>
          /\ Len(Calls(obs'.ev)) = 1
          /\ LET r == Calls(obs'.ev)[1].r[1] IN
                 /\ r = ErrTxDone
                 /\ obs'.ev = Completion(obs'.h, logger[obs'.h], obs'.op, r)
                 /\ obs'.ret = <<r>>
          /\ Tx'[obs'.h] = Tx[obs'.h]]_vars

\* Rollback called on a committed transaction, on a handle with a sink
C16_Witness ==
    /\ obs.op = "Rollback" /\ obs.ret = <<ErrTxDone>>
    /\ Tx[obs.h] = "committed"
    /\ logger[obs.h] = "L1"
    /\ Len(obs.ev) = 3

\* The Context operation each plain operation stands for.
ContextOf(o) ==
    CASE o = "Exec" -> "ExecContext"
      [] o = "Prepare" -> "PrepareContext"
      [] o = "Query" -> "QueryContext"
      [] o = "QueryRow" -> "QueryRowContext"
      [] o = "ScanStructs" -> "ScanStructsContext"
      [] o = "ScanStruct" -> "ScanStructContext"
      [] o = "ScanVals" -> "ScanValsContext"
      [] o = "ScanVal" -> "ScanValContext"
PlainOps == {"Exec", "Prepare", "Query", "QueryRow",
             "ScanStructs", "ScanStruct", "ScanVals", "ScanVal"}
\* What the Context operation o does when called on handle h with ctx, query
\* and args, its collaborator answering r (a Scan: by a caller holding got).
ContextDo(o, h, got, ctx, query, args, r) ==
    CASE o = "ExecContext" -> ExecContextDo(h, ctx, query, args, r)
      [] o = "PrepareContext" -> PrepareContextDo(h, ctx, query, r)
      [] o = "QueryContext" -> QueryContextDo(h, ctx, query, args, r)
      [] o = "QueryRowContext" -> QueryRowContextDo(h, ctx, query, args, r)
      [] OTHER -> LET p == CHOOSE p \in Procs : cur[p] = [d |-> h, got |-> got]
                  IN ScanDo(p, o, ctx, query, args, r)

\* C17: each plain operation does and returns what its Context counterpart
\* does and returns when called with the background context, the same query
\* and args, and the same answer of the connection or executor.
C17_PlainIsContext ==
    (obs.op \in PlainOps) =>
        /\ obs.ctx = Background
        /\ obs.ev = ContextDo(ContextOf(obs.op), obs.h, obs.got, Background,
                              obs.query, obs.args, obs.ret)
        /\ Len(Calls(obs.ev)) = IF obs.op \in {"Exec", "Prepare", "Query", "QueryRow"}
                                THEN 1 ELSE 2
        /\ Last(obs.ev).k = "call" /\ Last(obs.ev).r = obs.ret
        /\ Last(obs.ev).a[1] = Background

\* a ScanStructs whose executor failed
C17_Witness ==
    /\ obs.op = "ScanStructs" /\ obs.args = <<"7">> /\ obs.query = "SELECT 1"
    /\ obs.ret = <<"e2">>
    /\ Last(obs.ev).m = "ScanStructsContext"

\* C18: Wrap calls Commit on the transaction only when work returned nil;
\* when work returns an error, panics (with any value, nil included) or ends
\* its goroutine with runtime.Goexit, Wrap calls no Commit.
C18_CommitOnlyAfterNilReturn ==
    (WrapDone /\ TxCalls("Commit") # {}) => (WorkKind = "return" /\ WorkVal = Nil)

\* SpecFactories: up to MaxTx transactions are begun, and a caller uses the
\* query factories of the Database and of the transactions.
NextFactories ==
    \/ \E r \in BeginAnswers(MaxTx) : r[2] = Nil /\ Begin(r)
    \/ \E d \in Handles : QueryFactoryCall(Owner, d)
    \/ QueryFactorySteps(Owner)
    \/ QueryFactoryUsers(Owner, {Ctx1}, {Q1}, {A1}, {<<Nil>>}, {<<"true", Nil>>})

SpecFactories == InitDB("postgres") /\ [][NextFactories]_vars

\* The factory of handle h is absent, or was built from the DSL of h.
OwnFactory(h, f) == f = NilQF \/ f.dsl = h

\* C19: every handle has a query factory of its own.  A TxDatabase starts
\* without one; the factory a handle holds, and the factory a caller gets
\* from a handle or works with, was built from that handle's DSL and so on
\* that handle's connection; no two handles hold the same factory.
C19_OwnFactory ==
    /\ [](/\ \A h \in Handles : OwnFactory(h, qf[h])
          /\ \A h \in Handles \ live : qf[h] = NilQF /\ nctor[h] = 0
          /\ \A h, g \in Handles : (h # g /\ Usable(qf[h])) => qf[g] # qf[h]
          /\ \A p \in Procs : cur[p].got # NilQF => cur[p].got.dsl = cur[p].d
          /\ (Usable(obs.got) =>
                 /\ obs.got.dsl = obs.h
                 /\ \A i \in DOMAIN obs.ev : obs.ev[i].conn = sql[obs.h]))
    /\ [][BeginSucceeded =>
             /\ qf'[obs'.tx] = NilQF
             /\ qfOnce'[obs'.tx] = [done |-> FALSE, m |-> 0]
             /\ nctor'[obs'.tx] = 0
             /\ \A h \in live : qf'[h] = qf[h] /\ qfOnce'[h] = qfOnce[h]]_vars

\* the Database and two transactions each hold a factory, and a caller has
\* just scanned through the factory of the second transaction
C19_Witness ==
    /\ \A h \in {DB, 1, 2} : h \in live /\ Usable(qf[h])
    /\ obs.op = "ScanVals" /\ obs.h = 2 /\ Usable(obs.got)
    /\ Len(obs.ev) = 2

\* SpecSinks: up to MaxTx transactions are begun, sinks are set on the
\* Database and on the transactions, factories are created, and Trace shows
\* the sink a handle uses.
NextSinks ==
    \/ \E r \in BeginAnswers(MaxTx) : r[2] = Nil /\ Begin(r)
    \/ \E d \in Handles, l \in Sinks \cup {Nil} : Logger(d, l)
    \/ \E d \in Handles : TraceCall(d, "TRACE", "", <<>>)
    \/ \E d \in Handles : QueryFactoryCall(Owner, d)
    \/ QueryFactorySteps(Owner)
    \/ From(Owner)

SpecSinks == InitDB("postgres") /\ [][NextSinks]_vars

\* A call of Logger has just completed.
LoggerCalled == obs' # obs /\ obs'.op = "Logger"

\* C20: Logger sets the sink of the handle it is called on and nothing else:
\* the sinks of the other handles (a TxDatabase got its sink at Begin and
\* keeps it when the Database's sink changes, and the reverse), and the
\* dialect, connection and query factory of every handle, stay as they were.
\* What a handle traces afterwards goes to its own sink.
C20_LoggerFrame ==
    /\ [][LoggerCalled =>
             /\ logger'[obs'.h] = obs'.args[1]
             /\ \A h \in Handles \ {obs'.h} : logger'[h] = logger[h]
             /\ UNCHANGED <<live, dialect, sql, qf, qfOnce, nctor, Tx>>]_vars
    /\ [](obs.op = "Trace" =>
             Printfs(obs.ev) = IF logger[obs.h] = Nil THEN <<>>
                               ELSE <<PrintfEv(logger[obs.h], <<"[goqu] ", "TRACE">>)>>)

\* Logger was just called on the Database, whose factory exists, while a
\* transaction begun earlier still has another sink
C20_Witness ==
    /\ obs.op = "Logger" /\ obs.h = DB /\ obs.args = <<"L2">>
    /\ logger[DB] = "L2"
    /\ 1 \in live /\ logger[1] = "L1"
    /\ Usable(qf[DB])

====
